---- MODULE Spec2Model ----
(***************************************************************************)
(* A model of src/page.tsx: the Home component (one fetch at mount, one    *)
(* loaded-data snapshot, a loading view or the slide sequence), the two    *)
(* monthly chart transforms and the message helpers.                       *)
(*                                                                         *)
(* JavaScript values are tagged records: [t |-> "undefined"],              *)
(* [t |-> "null"], [t |-> "number", v |-> n], [t |-> "string", v |-> cs]   *)
(* (cs the sequence of the string's character codes, so that < and > on    *)
(* strings are the lexicographic comparison JavaScript makes) and          *)
(* [t |-> "object", ...].  Numbers are the integer-valued JavaScript       *)
(* numbers.  The message texts are the source's, with its two non-ASCII    *)
(* characters written "--" (em dash) and "'" (typographic apostrophe).     *)
(***************************************************************************)
EXTENDS Integers, Sequences, FiniteSets, TLC

VARIABLES
    data,        \* Home's state cell: useState<WrappedData | null>(null)
    view,        \* what the last render of Home put on the page
    renders,     \* how many times Home has rendered
    effectDue,   \* a render committed whose useEffect callback has yet to run
    reqs,        \* the promise chains started by fetch(...), in order of issue
    console,     \* what console.error has logged
    uncaught,    \* an exception or rejection escaped every handler
    fn, arg, ret, \* a direct call of a pure helper: its name, argument, result
    locale       \* the default locale of the runtime the page runs in

vars == <<data, view, renders, effectDue, reqs, console, uncaught, fn, arg, ret, locale>>
pageVars == <<data, view, renders, effectDue, reqs, console, uncaught, locale>>
callVars == <<fn, arg, ret>>

----------------------------------------------------------------------------
(* Bounds *)

MaxRenders == 3     \* renders of Home beyond which no further re-render is explored
MaxRequests == 2    \* fetches beyond which no further fetch is explored
MaxKeys == 2        \* most keys in a month mapping handed to a chart directly

----------------------------------------------------------------------------
(* JavaScript values *)

Undefined == [t |-> "undefined"]
Null == [t |-> "null"]
Num(n) == [t |-> "number", v |-> n]
Str(cs) == [t |-> "string", v |-> cs]

\* x == null, i.e. x is null or undefined: the test ?? and ?. make
IsNullish(x) == x.t \in {"undefined", "null"}

\* a ?? b
Coalesce(a, b) == IF IsNullish(a) THEN b ELSE a

\* !x
Falsy(x) ==
    \/ IsNullish(x)
    \/ x.t = "number" /\ x.v = 0
    \/ x.t = "string" /\ x.v = <<>>

\* obj[key] for an object whose own properties are the function props
Get(props, key) == IF key \in DOMAIN props THEN props[key] ELSE Undefined

\* x[key]: an own property of an object, undefined on any other non-nullish value
Prop(x, key) == IF x.t = "object" THEN Get(x.props, key) ELSE Undefined

Obj(props) == [t |-> "object", props |-> props]

\* ToNumber on the values the numeric helpers receive: undefined is NaN
\* (every comparison with it is false), null is 0
IsNaN(x) == x.t \notin {"number", "null"}
ToNumber(x) == IF x.t = "number" THEN x.v ELSE 0

\* x < n, x <= n, x > n, x >= n, x === n against a numeric literal n
Lt(x, n) == ~IsNaN(x) /\ ToNumber(x) < n
Le(x, n) == ~IsNaN(x) /\ ToNumber(x) <= n
Gt(x, n) == ~IsNaN(x) /\ ToNumber(x) > n
Ge(x, n) == ~IsNaN(x) /\ ToNumber(x) >= n
StrictEq(x, n) == x.t = "number" /\ x.v = n

\* x < h/2 for a literal written with one half, such as 5.5 = 11/2
LtHalves(x, h) == ~IsNaN(x) /\ 2 * ToNumber(x) < h

\* a < b on two strings: the first differing code unit decides, a proper
\* prefix is smaller
RECURSIVE LexLess(_, _)
LexLess(a, b) ==
    IF b = <<>> THEN FALSE
    ELSE IF a = <<>> THEN TRUE
    ELSE IF Head(a) # Head(b) THEN Head(a) < Head(b)
    ELSE LexLess(Tail(a), Tail(b))

\* the code units of "d1d2:d3d4" ('0' is 48, ':' is 58)
Clock(d1, d2, d3, d4) == <<48 + d1, 48 + d2, 58, 48 + d3, 48 + d4>>

\* String(n) for a non-negative integer: its decimal digits
Digit == <<"0", "1", "2", "3", "4", "5", "6", "7", "8", "9">>
RECURSIVE NumberToString(_)
NumberToString(n) ==
    IF n < 10 THEN Digit[n + 1]
    ELSE NumberToString(n \div 10) \o Digit[(n % 10) + 1]

\* `${x}`: what a template literal makes of a value
TemplateString(x) ==
    CASE x.t = "undefined" -> "undefined"
      [] x.t = "null" -> "null"
      [] x.t = "number" -> NumberToString(x.v)

\* x?.key
OptChain(x, key) == IF IsNullish(x) THEN Undefined ELSE Prop(x, key)

\* the runtimes' default locales considered, and the character each puts
\* between groups of three digits
Locales == {"en-US", "de-DE"}
GroupSeparator(loc) == IF loc = "en-US" THEN "," ELSE "."

\* the last three digits of a longer number, zeros kept
ThreeDigits(n) ==
    Digit[(n \div 100) + 1] \o Digit[((n \div 10) % 10) + 1] \o Digit[(n % 10) + 1]

\* the digits written without grouping, as toString() would
ToLocaleStringUngrouped(n, loc) == NumberToString(n)

\* n.toLocaleString() for a non-negative integer n under default locale loc
RECURSIVE ToLocaleString(_, _)
ToLocaleString(n, loc) ==
    IF n < 1000 THEN NumberToString(n)
    ELSE ToLocaleString(n \div 1000, loc) \o GroupSeparator(loc)
            \o ThreeDigits(n % 1000)

----------------------------------------------------------------------------
(* The monthly charts *)

months ==
    <<"Jan", "Feb", "Mar", "Apr", "May", "Jun",
      "Jul", "Aug", "Sep", "Oct", "Nov", "Dec">>

\* a slip of the index: idx = i instead of idx = i + 1
MonthlyStepsDataOffByOne(steps) ==
    LET safeSteps == Coalesce(steps, Obj(<<>>))
    IN  [p \in 1..Len(months) |->
            LET i == p - 1
                idx == i
                val == Coalesce(Coalesce(Prop(safeSteps, NumberToString(idx)),
                                         Prop(safeSteps, NumberToString(idx))),
                                Num(0))
            IN  [name |-> months[p], steps |-> val]]

\* MonthlyStepsChart's `data`: months.map((m, i) => ...), p - 1 being the
\* 0-based index i.  A number used as a property key is converted to its
\* string, so safeSteps[idx] and safeSteps[String(idx)] read the same property.
MonthlyStepsData(steps) ==
    LET safeSteps == Coalesce(steps, Obj(<<>>))
    IN  [p \in 1..Len(months) |->
            LET i == p - 1
                idx == i + 1
                val == Coalesce(Coalesce(Prop(safeSteps, NumberToString(idx)),
                                         Prop(safeSteps, NumberToString(idx))),
                                Num(0))
            IN  [name |-> months[p], steps |-> val]]

\* a missing month left as it is read instead of replaced by 0
WorkoutTimelineDataNoDefault(workouts) ==
    LET safeWorkouts == Coalesce(workouts, Obj(<<>>))
    IN  [p \in 1..Len(months) |->
            LET i == p - 1
                idx == i + 1
                val == Coalesce(Prop(safeWorkouts, NumberToString(idx)),
                                Prop(safeWorkouts, NumberToString(idx)))
            IN  [name |-> months[p], workouts |-> val]]

\* WorkoutTimelineChart's `data`
WorkoutTimelineData(workouts) ==
    LET safeWorkouts == Coalesce(workouts, Obj(<<>>))
    IN  [p \in 1..Len(months) |->
            LET i == p - 1
                idx == i + 1
                val == Coalesce(Coalesce(Prop(safeWorkouts, NumberToString(idx)),
                                         Prop(safeWorkouts, NumberToString(idx))),
                                Num(0))
            IN  [name |-> months[p], workouts |-> val]]

----------------------------------------------------------------------------
(* Message helpers *)

\* the first threshold written <= instead of <
getStepsMessageInclusive(steps) ==
    IF Le(steps, 50000)
    THEN "Whoa... did your sneakers go on vacation? Your couch definitely won this year."
    ELSE IF Lt(steps, 200000)
    THEN "You kept things casual--enough movement to keep the playlists going, but room to roam."
    ELSE IF Lt(steps, 500000)
    THEN "You were active! That many steps is basically a never-ending city stroll."
    ELSE "Holy moly cuz... that's alot of steps!"

getStepsMessage(steps) ==
    IF Lt(steps, 50000)
    THEN "Whoa... did your sneakers go on vacation? Your couch definitely won this year."
    ELSE IF Lt(steps, 200000)
    THEN "You kept things casual--enough movement to keep the playlists going, but room to roam."
    ELSE IF Lt(steps, 500000)
    THEN "You were active! That many steps is basically a never-ending city stroll."
    ELSE "Holy moly cuz... that's alot of steps!"

getDistanceMessage(km) ==
    IF Ge(km, 1500) THEN "That's like walking from Toronto to Minnesota!"
    ELSE IF Ge(km, 800)
    THEN "You covered enough ground to stretch across a couple of countries."
    ELSE IF Ge(km, 200)
    THEN "Solid grind: that's a full-on road trip completed one stride at a time."
    ELSE "Every kilometer counts--keep stacking them and the map won't keep up."

getFlightsMessage(flights) ==
    IF StrictEq(flights, 0)
    THEN "Elevators only? No judgement, but even your smartwatch is side-eyeing you."
    ELSE IF Lt(flights, 200)
    THEN "Steady climbs! You treated stairs like background dancers."
    ELSE IF Lt(flights, 500)
    THEN "You and staircases? Basically on a first-name basis."
    ELSE "All this cardio warrants skipping every single leg day"

getSleepHoursMessage(hours) ==
    IF Gt(hours, 3000)
    THEN "This year was part bedtime story, part hibernation docuseries."
    ELSE IF Gt(hours, 2000)
    THEN "Consider yourself well-rested royalty--crowns made of pillows."
    ELSE "Sleep was a bit of a speedrun :("

\* bedtime > "23:00" is "23:00" < bedtime
getBedtimeMessage(bedtime) ==
    IF Falsy(bedtime) THEN "Bedtime mystery unlocked soon."
    ELSE IF LexLess(Clock(2, 3, 0, 0), bedtime.v)
    THEN "Night owl confirmed--you love the late-night vibes."
    ELSE "Pretty tidy bedtime. Your circadian rhythm approves."

getWakeMessage(waketime) ==
    IF Falsy(waketime) THEN "Wake time? Still buffering."
    ELSE IF LexLess(waketime.v, Clock(0, 7, 0, 0))
    THEN "Early bird energy--you probably saw a few sunrises."
    ELSE "You vibe with the snooze button and we're here for it."

\* the missing-value test written == null instead of !
getRestlessNightMessageNullCheck(awakeningCount) ==
    IF IsNullish(awakeningCount) THEN "Quite the restless night!"
    ELSE IF Gt(awakeningCount, 10) THEN "Quite the restless night!"
    ELSE "A few tosses and turns, but you made it through."

getRestlessNightMessage(awakeningCount) ==
    IF Falsy(awakeningCount) THEN "Quite the restless night!"
    ELSE IF Gt(awakeningCount, 10) THEN "Quite the restless night!"
    ELSE "A few tosses and turns, but you made it through."

getLongestSleepMessage(hours) ==
    IF Falsy(hours) THEN "Quite the slumber."
    ELSE IF Ge(hours, 12)
    THEN "Quite the slumber--did you awaken in another era?"
    ELSE "Big slumber time"

getShortestSleepMessage(hours) ==
    IF Falsy(hours) THEN "Power nap vibes."
    ELSE IF Le(hours, 3) THEN "Basically a blink LOL"
    ELSE "Blink and you missed that night."

getRunCountMessage(runs) ==
    IF StrictEq(runs, 0)
    THEN "Your running shoes are in mint condition. Maybe too mint."
    ELSE IF Lt(runs, 20) THEN "Quality over quantity I suppose."
    ELSE IF Lt(runs, 60)
    THEN "Steady rhythm. Those playlists got some mileage."
    ELSE "You basically lived on the leaderboard."

getLongestRunMessage(km) ==
    IF Ge(km, 30) THEN "Marathon-core unlocked. That's an epic long run."
    ELSE IF Ge(km, 15)
    THEN "Long enough to cross a couple neighborhoods with bragging rights."
    ELSE "Bent the corner."

\* the !pace test left out
getFastestPaceMessageNoGuard(pace) ==
    IF Lt(pace, 4) THEN "Blazing. You left even the data catching its breath."
    ELSE IF LtHalves(pace, 11)
    THEN "Swift and smooth--you floated through those runs."
    ELSE "Vibez and cardio."

\* pace < 5.5 is 2 * pace < 11
getFastestPaceMessage(pace) ==
    IF Falsy(pace) THEN "Pace radar couldn't lock on--mysterious speed!"
    ELSE IF Lt(pace, 4) THEN "Blazing. You left even the data catching its breath."
    ELSE IF LtHalves(pace, 11)
    THEN "Swift and smooth--you floated through those runs."
    ELSE "Vibez and cardio."

\* the thresholds written > instead of >=
getRunDistanceMessageStrict(km) ==
    IF Gt(km, 500) THEN "That's a legit tour of the map. Passport stamps pending."
    ELSE IF Gt(km, 200)
    THEN "Hundreds of kilometers, countless playlists finished."
    ELSE "Every kilometer counts."

getRunDistanceMessage(km) ==
    IF Ge(km, 500) THEN "That's a legit tour of the map. Passport stamps pending."
    ELSE IF Ge(km, 200)
    THEN "Hundreds of kilometers, countless playlists finished."
    ELSE "Every kilometer counts."

getExerciseMinutesMessage(minutes) ==
    IF Ge(minutes, 2000)
    THEN "Time is muscle--you basically lived in workout mode."
    ELSE IF Ge(minutes, 1000) THEN "Hours kept stackin."
    ELSE "Every minute mattered. Warm-up phase complete."

getCaloriesBurnedMessage(calories) ==
    IF Ge(calories, 100000)
    THEN "That's enough energy to light up the block."
    ELSE IF Ge(calories, 50000)
    THEN "Plenty of sweat equity invested this year."
    ELSE "A solid burn to get started."

getStandHoursMessage(hours) ==
    IF Ge(hours, 500) THEN "CHAIRS EXIST BRO"
    ELSE IF Ge(hours, 300)
    THEN "You logged serious stand hours; the chair missed you."
    ELSE "Baby steps toward less sitting. Keep it up."

\* the test of type left out of the first branch: every call is a "high" call
getWorkoutBPMMessageIgnoringType(value, type) ==
    IF Ge(value, 190) THEN "We hittin heart till failure or what"
    ELSE IF Ge(value, 160)
    THEN "You pushed into the spicy zone whenever it mattered."
    ELSE "A composed high--power with control."

getWorkoutBPMMessage(value, type) ==
    IF type = "high"
    THEN IF Ge(value, 190) THEN "We hittin heart till failure or what"
         ELSE IF Ge(value, 160)
         THEN "You pushed into the spicy zone whenever it mattered."
         ELSE "A composed high--power with control."
    ELSE IF Ge(value, 150) THEN "Your baseline intensity is pretty fiery."
    ELSE IF Ge(value, 120) THEN "Smooth operator"
    ELSE "Chill sessions. Maybe next season gets a remix?"

getAvgWorkoutTimeMessage(minutes) ==
    IF Ge(minutes, 60) THEN "Sessions long enough to count as mini-epics."
    ELSE IF Ge(minutes, 30) THEN "Perfectly portioned workouts."
    ELSE "Quick hits, maximum efficiency. HIIT energy."

getAvgCaloriesPerWorkoutMessage(calories) ==
    IF Ge(calories, 600) THEN "Every workout was a blockbuster burn."
    ELSE IF Ge(calories, 350)
    THEN "A consistent burn that kept stacking up."
    ELSE "Light and breezy."

----------------------------------------------------------------------------
(* The documents the endpoint may answer with *)

\* props without the property key
Without(props, key) == [k \in DOMAIN props \ {key} |-> props[k]]

StepTotals == {Num(42), Num(600000)}

PageMaps ==
    { Obj(<<>>),
      Obj("3" :> Num(500)),
      Obj(("1" :> Num(2)) @@ ("12" :> Num(7))),
      Obj([k \in { NumberToString(n) : n \in 1..12 } |-> Num(31)]) }

\* documents with every field the slides read unguarded, and both mappings
\* a JSON array
Arr(items) == [t |-> "array", items |-> items]

\* a night record: hours slept and the date "2024"
Night(hours) == Obj([duration_hours |-> Num(hours), date_woke |-> Str(<<50, 48, 50, 52>>)])

FullDocs ==
    { Obj([steps_total |-> s, distance_total_km |-> Num(1200),
           flights_total |-> Num(310), steps_monthly |-> sm,
           workouts_monthly |-> wm, shortest_sleep_night |-> Night(4),
           fastest_pace_min_per_km |-> Num(5),
           run_distances |-> Arr(<<Num(5), Num(10)>>),
           highest_workout_bpm |-> Num(185), avg_workout_bpm |-> Num(140)]) :
        s \in StepTotals, sm \in PageMaps, wm \in PageMaps }

\* marks a property the document does not have
Absent == [t |-> "absent"]

\* props with the property key set to value, or removed when value is Absent
With(props, key, value) ==
    IF value = Absent THEN [k \in DOMAIN props \ {key} |-> props[k]]
    ELSE [k \in DOMAIN props \cup {key} |-> IF k = key THEN value ELSE props[k]]

\* what the optional and nullable fields may hold
FieldVariants ==
    [shortest_sleep_night |-> {Absent, Night(0), Night(3)},
     fastest_pace_min_per_km |-> {Absent, Null, Num(0), Num(3)},
     run_distances |->
        {Absent, Arr(<<>>), Arr(<<Num(7)>>), Arr(<<Num(199)>>),
         Arr(<<Num(120), Num(80)>>), Arr(<<Num(499)>>),
         Arr(<<Num(200), Num(300)>>)},
     highest_workout_bpm |-> {Absent},
     avg_workout_bpm |-> {Absent}]

\* full documents with empty month mappings and one such field varied
VariantDocs ==
    UNION { { Obj(With(d.props, k, v)) : v \in FieldVariants[k] } :
            d \in { e \in FullDocs :
                        /\ e.props.steps_monthly = Obj(<<>>)
                        /\ e.props.workouts_monthly = Obj(<<>>) },
            k \in DOMAIN FieldVariants }

\* {} and an error document such as {"detail": "Not Found"}
ErrorDocs == { Obj(<<>>), Obj([detail |-> Str(<<78, 111>>)]) }

PartialDocs ==
    { Obj(Without(d.props, k)) :
        d \in FullDocs, k \in {"steps_total", "workouts_monthly"} }

JsonValues == FullDocs \cup VariantDocs \cup PartialDocs \cup ErrorDocs \cup {Null}

\* a response body: text that is JSON for the value json, or is not JSON
Bodies == { [valid |-> TRUE, json |-> j] : j \in JsonValues }
            \cup { [valid |-> FALSE, json |-> Undefined] }

Statuses == {200, 404, 500}

\* the fields of interface WrappedData that the model tracks, with their types
IsWrappedData(j) ==
    /\ j.t = "object"
    /\ \A k \in {"steps_total", "distance_total_km", "flights_total"} :
          Prop(j, k).t = "number"
    /\ \A k \in {"steps_monthly", "workouts_monthly"} : Prop(j, k).t = "object"

----------------------------------------------------------------------------
(* Home *)

\* x.toLocaleString() and the like: reading a property of null or undefined
\* throws a TypeError
ThrowsOnMember(x) == IsNullish(x)

\* the part of Home's body after the loading guard: true when evaluating it
\* throws (steps_total, distance_total_km and flights_total are dereferenced
\* without a guard; the other fields read are guarded by ??, ?. or coerced)
SlidesThrow(d) ==
    \/ ThrowsOnMember(Prop(d, "steps_total"))
    \/ ThrowsOnMember(Prop(d, "distance_total_km"))
    \/ ThrowsOnMember(Prop(d, "flights_total"))

\* the data.run_distances.reduce((a, b) => a + b, 0) of an array's items
RECURSIVE Reduce(_, _)
Reduce(items, acc) ==
    IF items = <<>> THEN acc ELSE Reduce(Tail(items), acc + Head(items).v)

\* the code units of the decimal digits of a non-negative integer
RECURSIVE DigitCodes(_)
DigitCodes(n) ==
    IF n < 10 THEN <<48 + n>> ELSE DigitCodes(n \div 10) \o <<48 + (n % 10)>>

\* n.toFixed(2) for an integer n: its digits, '.' (46) and two zeros
ToFixed2(n) == DigitCodes(n) \o <<46, 48, 48>>

\* Number(cs) for the digits-and-fraction strings toFixed(2) makes of an
\* integer: the digits before the '.' read as a decimal number
RECURSIVE ParseDigits(_, _)
ParseDigits(cs, acc) ==
    IF cs = <<>> \/ Head(cs) = 46 THEN acc
    ELSE ParseDigits(Tail(cs), 10 * acc + (Head(cs) - 48))

NumberOf(cs) == Num(ParseDigits(cs, 0))

\* the text of a string of digits and '.'
RECURSIVE Text(_)
Text(cs) ==
    IF cs = <<>> THEN ""
    ELSE (IF Head(cs) = 46 THEN "." ELSE Digit[Head(cs) - 48 + 1]) \o Text(Tail(cs))

\* Home's totalRunDistance
TotalRunDistance(d) ==
    ToFixed2(Reduce(Coalesce(Prop(d, "run_distances"), Arr(<<>>)).items, 0))

\* SleepCard: the note and the footer are rendered only when truthy
SleepCard(label, value, note, footer) ==
    [label |-> label, value |-> value, note |-> note, noteShown |-> note # "",
     footer |-> footer, footerShown |-> ~Falsy(footer)]

RunCard(label, value, note) ==
    [label |-> label, value |-> value, note |-> note, noteShown |-> note # ""]

FitnessCard(label, value, note, variant) ==
    [label |-> label, value |-> value, note |-> note, noteShown |-> note # "",
     variant |-> variant]

\* the ?? "N/A" left out of the value
ShortestSleepCardNoFallback(d) ==
    LET night == Prop(d, "shortest_sleep_night")
        hours == OptChain(night, "duration_hours")
    IN  SleepCard("Shortest Sleep",
                  TemplateString(hours) \o " hrs",
                  getShortestSleepMessage(hours),
                  OptChain(night, "date_woke"))

\* the Shortest Sleep card of Home
ShortestSleepCard(d) ==
    LET night == Prop(d, "shortest_sleep_night")
        hours == OptChain(night, "duration_hours")
    IN  SleepCard("Shortest Sleep",
                  (IF IsNullish(hours) THEN "N/A" ELSE TemplateString(hours)) \o " hrs",
                  getShortestSleepMessage(hours),
                  OptChain(night, "date_woke"))

\* the Fastest Pace card of Home
FastestPaceCard(d) ==
    RunCard("Fastest Pace",
            TemplateString(Prop(d, "fastest_pace_min_per_km")) \o " min/km",
            getFastestPaceMessage(Prop(d, "fastest_pace_min_per_km")))

\* the Distance in Runs card of Home
RunDistanceCard(d) ==
    RunCard("Distance in Runs",
            Text(TotalRunDistance(d)) \o " km",
            getRunDistanceMessage(NumberOf(TotalRunDistance(d))))

\* the two cards of the BPM slide, from the two BPM fields of the document
BPMSlide(highest_workout_bpm, avg_workout_bpm) ==
    [high |-> FitnessCard("Highest Workout BPM",
                  TemplateString(Coalesce(highest_workout_bpm, Num(0))) \o " bpm",
                  getWorkoutBPMMessage(Coalesce(highest_workout_bpm, Num(0)), "high"),
                  "alert"),
     avg |-> FitnessCard("Average Workout BPM",
                  TemplateString(Coalesce(avg_workout_bpm, Num(0))) \o " bpm",
                  getWorkoutBPMMessage(Coalesce(avg_workout_bpm, Num(0)), "avg"),
                  "alert")]

\* the Movement and Running tiles of FinalSummarySlide
FinalSummarySlide(movementSteps, fastestPace) ==
    [movement |-> ToLocaleString(movementSteps.v, locale) \o " steps",
     running |-> IF Falsy(fastestPace) THEN "--"
                 ELSE TemplateString(fastestPace) \o " min/km"]

Section(type, category) == [type |-> type, category |-> category]

\* a chart slide left out when its mapping has no month
SectionsSkippingEmptyCharts(d) ==
    <<Section("hero", "none"),
      Section("intro", "Movement"), Section("stat", "Movement"),
      Section("stat", "Movement"), Section("stat", "Movement")>>
    \o (IF Coalesce(Prop(d, "steps_monthly"), Obj(<<>>)) = Obj(<<>>) THEN <<>>
        ELSE <<Section("chart", "Movement")>>)
    \o <<Section("intro", "Sleep"), Section("stat", "Sleep"),
         Section("stat", "Sleep"), Section("stat", "Sleep"),
         Section("intro", "Running"), Section("stat", "Running"),
         Section("stat", "Running"),
         Section("intro", "Fitness"), Section("stat", "Fitness"),
         Section("stat", "Fitness"), Section("stat", "Fitness")>>
    \o (IF Coalesce(Prop(d, "workouts_monthly"), Obj(<<>>)) = Obj(<<>>) THEN <<>>
        ELSE <<Section("chart", "Fitness")>>)
    \o <<Section("finale", "none")>>

\* the children of Home's root element, in document order
Sections(d) ==
    <<Section("hero", "none"),
      Section("intro", "Movement"), Section("stat", "Movement"),
      Section("stat", "Movement"), Section("stat", "Movement"),
      Section("chart", "Movement"),
      Section("intro", "Sleep"), Section("stat", "Sleep"),
      Section("stat", "Sleep"), Section("stat", "Sleep"),
      Section("intro", "Running"), Section("stat", "Running"),
      Section("stat", "Running"),
      Section("intro", "Fitness"), Section("stat", "Fitness"),
      Section("stat", "Fitness"), Section("stat", "Fitness"),
      Section("stat", "Fitness"), Section("chart", "Fitness"),
      Section("finale", "none")>>

Slides(d) ==
    IF SlidesThrow(d)
    THEN [kind |-> "crashed"]
    ELSE [kind |-> "slides",
          sections |-> Sections(d),
          stepsValue |-> ToLocaleString(Prop(d, "steps_total").v, locale),
          stepsMessage |-> getStepsMessage(Prop(d, "steps_total")),
          shortestSleep |-> ShortestSleepCard(d),
          fastestPace |-> FastestPaceCard(d),
          runDistance |-> RunDistanceCard(d),
          bpm |-> BPMSlide(Prop(d, "highest_workout_bpm"), Prop(d, "avg_workout_bpm")),
          summary |-> FinalSummarySlide(Prop(d, "steps_total"),
                          Coalesce(Prop(d, "fastest_pace_min_per_km"), Null)),
          stepsChart |-> MonthlyStepsData(Prop(d, "steps_monthly")),
          workoutsChart |-> WorkoutTimelineData(Prop(d, "workouts_monthly"))]

\* the `if (!data)` guard left out: data.run_distances is read on null
RenderNoGuard(d) ==
    IF IsNullish(d) THEN [kind |-> "crashed"] ELSE Slides(d)

\* one evaluation of Home with state d: the loading view, the slides, or
\* "crashed" when the evaluation throws (React then unmounts the tree)
Render(d) ==
    IF Falsy(d)
    THEN [kind |-> "loading", text |-> "Loading your Wrapped..."]
    ELSE Slides(d)

\* the total of the runs taken over data.run_distances.reverse(), which
\* reverses the array of the state object in place
StateAfterRenderReversing(d) ==
    IF Prop(d, "run_distances").t = "array"
    THEN Obj(With(d.props, "run_distances",
             Arr([ i \in 1..Len(Prop(d, "run_distances").items) |->
                     Prop(d, "run_distances").items[
                         Len(Prop(d, "run_distances").items) + 1 - i] ])))
    ELSE d

\* the state object after Home has been evaluated with it: the render only
\* reads data (reduce, Object.entries().map() and months.map() build new
\* values), so the object is left as it was
StateAfterRender(d) == d

\* the dependency array left out: the effect runs after every render
DepsOmitted(n) == TRUE

\* useEffect(..., []): the effect runs after render number n only at mount
DepsChanged(n) == n = 1

\* Object.is(a, b) for a freshly parsed b: only equal primitives are the same
SameValue(a, b) == a.t # "object" /\ a = b

NoBody == [valid |-> FALSE, json |-> Undefined]

NewRequest ==
    [stage |-> "pending", issuedAt |-> renders, status |-> 0, body |-> NoBody,
     json |-> Undefined, reason |-> "none"]

\* the rejection left unhandled: no .catch on the chain
Unhandled(log, reason) == [console |-> log, uncaught |-> TRUE]

\* .catch((error) => console.error("Failed to fetch wrapped data:", error))
Catch(log, reason) == [console |-> Append(log, reason), uncaught |-> FALSE]

Init ==
    /\ locale \in Locales
    /\ data = Null
    /\ renders = 1
    /\ view = Render(Null)
    /\ effectDue = DepsChanged(1)
    /\ reqs = <<>>
    /\ console = <<>>
    /\ uncaught = (Render(Null).kind = "crashed")
    /\ fn = "none"
    /\ arg = <<>>
    /\ ret = Undefined

\* the effect callback: fetch("http://127.0.0.1:8000/wrapped")
RunEffect ==
    /\ effectDue
    /\ view.kind # "crashed"
    /\ Len(reqs) < MaxRequests
    /\ reqs' = Append(reqs, NewRequest)
    /\ effectDue' = FALSE
    /\ UNCHANGED <<data, view, renders, console, uncaught, fn, arg, ret, locale>>

\* the fetch promise rejects: no connection, or the browser gave up waiting
FetchRejects(i, reason) ==
    /\ reqs[i].stage = "pending"
    /\ reqs' = [reqs EXCEPT ![i].stage = "rejected", ![i].reason = reason]
    /\ UNCHANGED <<data, view, renders, effectDue, console, uncaught, fn, arg, ret, locale>>

\* the fetch promise resolves with a response, whatever its status
FetchResolves(i, status, body) ==
    /\ reqs[i].stage = "pending"
    /\ reqs' = [reqs EXCEPT ![i].stage = "response", ![i].status = status,
                            ![i].body = body]
    /\ UNCHANGED <<data, view, renders, effectDue, console, uncaught, fn, arg, ret, locale>>

\* .then((res) => res.json())
ThenJson(i) ==
    /\ reqs[i].stage = "response"
    /\ reqs' = IF reqs[i].body.valid
               THEN [reqs EXCEPT ![i].stage = "parsed", ![i].json = reqs[i].body.json]
               ELSE [reqs EXCEPT ![i].stage = "rejected", ![i].reason = "parse"]
    /\ UNCHANGED <<data, view, renders, effectDue, console, uncaught, fn, arg, ret, locale>>

\* .then((json: WrappedData) => setData(json)) and the render it causes
ThenSetData(i) ==
    /\ reqs[i].stage = "parsed"
    /\ reqs' = [reqs EXCEPT ![i].stage = "done"]
    /\ IF view.kind = "crashed" \/ SameValue(data, reqs[i].json)
       THEN UNCHANGED <<data, view, renders, effectDue, uncaught>>
       ELSE /\ data' = StateAfterRender(reqs[i].json)
            /\ renders' = renders + 1
            /\ view' = Render(reqs[i].json)
            /\ effectDue' = (effectDue \/ DepsChanged(renders'))
            /\ uncaught' = (uncaught \/ view'.kind = "crashed")
    /\ UNCHANGED <<console, fn, arg, ret, locale>>

\* the rejection reaches the end of the chain
CatchHandler(i) ==
    /\ reqs[i].stage = "rejected"
    /\ reqs' = [reqs EXCEPT ![i].stage = "caught"]
    /\ console' = Catch(console, reqs[i].reason).console
    /\ uncaught' = (uncaught \/ Catch(console, reqs[i].reason).uncaught)
    /\ UNCHANGED <<data, view, renders, effectDue, fn, arg, ret, locale>>

\* Home renders again with its state unchanged (React runs the effects of a
\* committed render before it renders the component again)
Rerender ==
    /\ view.kind # "crashed"
    /\ ~effectDue
    /\ renders < MaxRenders
    /\ renders' = renders + 1
    /\ view' = Render(data)
    /\ data' = StateAfterRender(data)
    /\ effectDue' = (effectDue \/ DepsChanged(renders'))
    /\ uncaught' = (uncaught \/ view'.kind = "crashed")
    /\ UNCHANGED <<reqs, console, fn, arg, ret, locale>>

Next ==
    \/ RunEffect
    \/ \E i \in 1..Len(reqs), reason \in {"network", "timeout"} : FetchRejects(i, reason)
    \/ \E i \in 1..Len(reqs), status \in Statuses, body \in Bodies :
          FetchResolves(i, status, body)
    \/ \E i \in 1..Len(reqs) : ThenJson(i)
    \/ \E i \in 1..Len(reqs) : ThenSetData(i)
    \/ \E i \in 1..Len(reqs) : CatchHandler(i)
    \/ Rerender

Spec == Init /\ [][Next]_vars

\* queued promise reactions and effect callbacks always get to run
FairSpec ==
    /\ Spec
    /\ WF_vars(RunEffect)
    /\ \A i \in 1..MaxRequests :
          /\ WF_vars(i <= Len(reqs) /\ ThenJson(i))
          /\ WF_vars(i <= Len(reqs) /\ ThenSetData(i))
          /\ WF_vars(i <= Len(reqs) /\ CatchHandler(i))

----------------------------------------------------------------------------
(* Direct calls of the pure helpers, on inputs around every threshold *)

NumberInputs ==
    { Num(n) : n \in
        { 0, 1, 2, 3, 4, 5, 6, 10, 11, 12, 14, 15, 19, 20, 29, 30, 59, 60,
          119, 120, 149, 150, 159, 160, 189, 190, 199, 200, 299, 300, 349,
          350, 499, 500, 599, 600, 799, 800, 999, 1000, 1499, 1500, 1999,
          2000, 2001, 3000, 3001, 49999, 50000, 50001, 99999, 100000,
          199999, 200000, 200001, 499999, 500000, 500001, 600000 } }

\* "", "00:15", "06:59", "07:00", "07:30", "22:30", "23:00", "23:01",
\* "23:59", "7:30" and "9:05"
ClockInputs ==
    { Str(<<>>), Str(Clock(0, 0, 1, 5)), Str(Clock(0, 6, 5, 9)),
      Str(Clock(0, 7, 0, 0)), Str(Clock(0, 7, 3, 0)), Str(Clock(2, 2, 3, 0)),
      Str(Clock(2, 3, 0, 0)), Str(Clock(2, 3, 0, 1)), Str(Clock(2, 3, 5, 9)),
      Str(Tail(Clock(0, 7, 3, 0))), Str(Tail(Clock(0, 9, 0, 5))) }

\* the helpers whose parameter is declared optional or nullable
OptionalNumberHelpers ==
    { "getRestlessNightMessage", "getLongestSleepMessage",
      "getShortestSleepMessage", "getFastestPaceMessage" }

OptionalStringHelpers == { "getBedtimeMessage", "getWakeMessage" }

NumberHelpers ==
    { "getStepsMessage", "getDistanceMessage", "getFlightsMessage",
      "getSleepHoursMessage", "getRunCountMessage", "getLongestRunMessage",
      "getRunDistanceMessage", "getExerciseMinutesMessage",
      "getCaloriesBurnedMessage", "getStandHoursMessage",
      "getAvgWorkoutTimeMessage", "getAvgCaloriesPerWorkoutMessage" }

\* the argument lists each helper is called with
HelperArgs(f) ==
    IF f \in NumberHelpers THEN { <<x>> : x \in NumberInputs }
    ELSE IF f \in OptionalNumberHelpers
    THEN { <<x>> : x \in NumberInputs \cup {Undefined, Null} }
    ELSE IF f \in OptionalStringHelpers
    THEN { <<x>> : x \in ClockInputs \cup {Undefined, Null} }
    ELSE { <<x, type>> : x \in NumberInputs, type \in {"high", "avg"} }

Helpers ==
    NumberHelpers \cup OptionalNumberHelpers \cup OptionalStringHelpers
        \cup {"getWorkoutBPMMessage"}

Apply(f, a) ==
    CASE f = "getStepsMessage" -> getStepsMessage(a[1])
      [] f = "getDistanceMessage" -> getDistanceMessage(a[1])
      [] f = "getFlightsMessage" -> getFlightsMessage(a[1])
      [] f = "getSleepHoursMessage" -> getSleepHoursMessage(a[1])
      [] f = "getBedtimeMessage" -> getBedtimeMessage(a[1])
      [] f = "getWakeMessage" -> getWakeMessage(a[1])
      [] f = "getRestlessNightMessage" -> getRestlessNightMessage(a[1])
      [] f = "getLongestSleepMessage" -> getLongestSleepMessage(a[1])
      [] f = "getShortestSleepMessage" -> getShortestSleepMessage(a[1])
      [] f = "getRunCountMessage" -> getRunCountMessage(a[1])
      [] f = "getLongestRunMessage" -> getLongestRunMessage(a[1])
      [] f = "getFastestPaceMessage" -> getFastestPaceMessage(a[1])
      [] f = "getRunDistanceMessage" -> getRunDistanceMessage(a[1])
      [] f = "getExerciseMinutesMessage" -> getExerciseMinutesMessage(a[1])
      [] f = "getCaloriesBurnedMessage" -> getCaloriesBurnedMessage(a[1])
      [] f = "getStandHoursMessage" -> getStandHoursMessage(a[1])
      [] f = "getWorkoutBPMMessage" -> getWorkoutBPMMessage(a[1], a[2])
      [] f = "getAvgWorkoutTimeMessage" -> getAvgWorkoutTimeMessage(a[1])
      [] f = "getAvgCaloriesPerWorkoutMessage" ->
            getAvgCaloriesPerWorkoutMessage(a[1])

\* String(1) .. String(12): the keys a month mapping has once it is JSON
MonthKeys == { NumberToString(n) : n \in 1..12 }

MonthCounts == { Num(0), Num(7), Num(500) }

\* the `steps` / `workouts` prop: absent, or a mapping of at most MaxKeys months
ChartInputs ==
    {Undefined} \cup
    { Obj(m) : m \in UNION { [K -> MonthCounts] :
                   K \in { S \in SUBSET MonthKeys : Cardinality(S) <= MaxKeys } } }

\* a helper is called while no call is in progress, and returns before the next
CallHelper(f, a) ==
    /\ fn = "none"
    /\ fn' = f
    /\ arg' = a
    /\ ret' = Apply(f, a)
    /\ UNCHANGED pageVars

CallMonthlyStepsChart(steps) ==
    /\ fn = "none"
    /\ fn' = "MonthlyStepsChart"
    /\ arg' = <<steps>>
    /\ ret' = MonthlyStepsData(steps)
    /\ UNCHANGED pageVars

CallWorkoutTimelineChart(workouts) ==
    /\ fn = "none"
    /\ fn' = "WorkoutTimelineChart"
    /\ arg' = <<workouts>>
    /\ ret' = WorkoutTimelineData(workouts)
    /\ UNCHANGED pageVars

\* what a BPM field or the pace handed to a component may hold
BPMInputs ==
    { Undefined, Null } \cup
    { Num(n) : n \in {0, 119, 120, 149, 150, 159, 160, 189, 190} }

PaceInputs == { Null, Num(0), Num(3), Num(4), Num(5), Num(6) }

CallFinalSummarySlide(movementSteps, fastestPace) ==
    /\ fn = "none"
    /\ fn' = "FinalSummarySlide"
    /\ arg' = <<movementSteps, fastestPace>>
    /\ ret' = FinalSummarySlide(movementSteps, fastestPace)
    /\ UNCHANGED pageVars

CallBPMSlide(highest_workout_bpm, avg_workout_bpm) ==
    /\ fn = "none"
    /\ fn' = "BPMSlide"
    /\ arg' = <<highest_workout_bpm, avg_workout_bpm>>
    /\ ret' = BPMSlide(highest_workout_bpm, avg_workout_bpm)
    /\ UNCHANGED pageVars

Return ==
    /\ fn # "none"
    /\ fn' = "none"
    /\ arg' = <<>>
    /\ ret' = Undefined
    /\ UNCHANGED pageVars

HelperNext ==
    \/ \E f \in Helpers : \E a \in HelperArgs(f) : CallHelper(f, a)
    \/ \E steps \in ChartInputs : CallMonthlyStepsChart(steps)
    \/ \E workouts \in ChartInputs : CallWorkoutTimelineChart(workouts)
    \/ \E movementSteps \in StepTotals, fastestPace \in PaceInputs :
          CallFinalSummarySlide(movementSteps, fastestPace)
    \/ \E highest_workout_bpm \in BPMInputs, avg_workout_bpm \in BPMInputs :
          CallBPMSlide(highest_workout_bpm, avg_workout_bpm)
    \/ Return

HelperSpec == Init /\ [][HelperNext]_vars

----------------------------------------------------------------------------
(* Properties *)

LoadingView == [kind |-> "loading", text |-> "Loading your Wrapped..."]

Requests == 1..Len(reqs)

FetchRejected(i) ==
    i \in Requests /\ reqs[i].reason \in {"network", "timeout"}

\* C1: once the fetch promise has rejected, data is null, the view is the
\* "Loading your Wrapped..." state and nothing escaped, in that state and in
\* every later one, no slide having been rendered; and the rejection gets
\* caught and logged.
C1_FetchFailureStaysLoading ==
    /\ [](\A i \in Requests :
            FetchRejected(i) =>
                /\ data = Null
                /\ view = LoadingView
                /\ ~uncaught
                /\ reqs[i].stage \in {"rejected", "caught"}
                /\ (reqs[i].stage = "caught" => console = <<reqs[i].reason>>))
    /\ (\E i \in Requests : FetchRejected(i)) ~>
          /\ \A i \in Requests : FetchRejected(i) => reqs[i].stage = "caught"
          /\ Len(console) = 1

C1_Witness ==
    /\ Len(reqs) = 1
    /\ reqs[1].stage = "caught"
    /\ reqs[1].reason = "network"
    /\ console = <<"network">>
    /\ renders = 3
    /\ view = LoadingView

FetchFailed(i) ==
    \/ reqs[i].reason \in {"network", "timeout", "parse"}
    \/ reqs[i].stage # "pending" /\ reqs[i].status >= 400

\* C2: every failed fetch (rejection, 4xx or 5xx response, malformed body)
\* ends the same way: data is not set and the view stays loading, no document
\* of a 4xx or 5xx response having been handed to setData.
C2_EveryFailureStaysLoading ==
    \A i \in Requests :
        FetchFailed(i) => data = Null /\ view.kind = "loading"

\* C3: a document that lacks part of the WrappedData shape is never rendered:
\* the view is the loading state or the slides of a complete document, and
\* rendering never throws.
C3_NoPartialRendering ==
    /\ view.kind \in {"loading", "slides"}
    /\ view.kind = "slides" => IsWrappedData(data)
    /\ ~uncaught

\* C4: at most one request is ever issued and it is issued at mount; once the
\* effect has run there is exactly one, whatever resolved, rejected or
\* re-rendered since; never two requests in flight.
C4_ExactlyOneRequest ==
    /\ Len(reqs) <= 1
    /\ ~effectDue => Len(reqs) = 1
    /\ \A i \in Requests : reqs[i].issuedAt = 1
    /\ Cardinality({ i \in Requests : reqs[i].stage = "pending" }) <= 1

C4_Witness ==
    /\ Len(reqs) = 1
    /\ reqs[1].stage = "caught"
    /\ renders = 3
    /\ ~effectDue

ResolvedWithWrappedData(i) ==
    /\ i \in Requests
    /\ reqs[i].stage = "response"
    /\ reqs[i].body.valid
    /\ IsWrappedData(reqs[i].body.json)

\* C5: the view is loading as long as no fetch has resolved; it is loading
\* exactly when data is falsy; and a fetch resolved with a WrappedData
\* document leads to the slides.
C5_LoadingUntilData ==
    /\ []((\A i \in Requests : reqs[i].stage = "pending") => view = LoadingView)
    /\ [](view.kind = "loading" <=> Falsy(data))
    /\ (\E i \in Requests : ResolvedWithWrappedData(i)) ~>
          /\ view.kind = "slides"
          /\ \E i \in Requests : reqs[i].stage = "done" /\ data = reqs[i].json

C5_Witness ==
    /\ Len(reqs) = 1
    /\ reqs[1].stage = "done"
    /\ IsWrappedData(data)
    /\ view.kind = "slides"

\* C6: setData runs at most once, and once data is non-null no step changes it.
C6_SnapshotWrittenOnce ==
    /\ [](Cardinality({ i \in Requests : reqs[i].stage = "done" }) <= 1)
    /\ [][data # Null => data' = data]_vars

C6_Witness ==
    /\ data \in FullDocs
    /\ reqs[1].stage = "done"
    /\ renders = 3

\* the strings each helper may return
Messages(f) ==
    CASE f = "getStepsMessage" ->
            { "Whoa... did your sneakers go on vacation? Your couch definitely won this year.",
              "You kept things casual--enough movement to keep the playlists going, but room to roam.",
              "You were active! That many steps is basically a never-ending city stroll.",
              "Holy moly cuz... that's alot of steps!" }
      [] f = "getDistanceMessage" ->
            { "That's like walking from Toronto to Minnesota!",
              "You covered enough ground to stretch across a couple of countries.",
              "Solid grind: that's a full-on road trip completed one stride at a time.",
              "Every kilometer counts--keep stacking them and the map won't keep up." }
      [] f = "getFlightsMessage" ->
            { "Elevators only? No judgement, but even your smartwatch is side-eyeing you.",
              "Steady climbs! You treated stairs like background dancers.",
              "You and staircases? Basically on a first-name basis.",
              "All this cardio warrants skipping every single leg day" }
      [] f = "getSleepHoursMessage" ->
            { "This year was part bedtime story, part hibernation docuseries.",
              "Consider yourself well-rested royalty--crowns made of pillows.",
              "Sleep was a bit of a speedrun :(" }
      [] f = "getBedtimeMessage" ->
            { "Bedtime mystery unlocked soon.",
              "Night owl confirmed--you love the late-night vibes.",
              "Pretty tidy bedtime. Your circadian rhythm approves." }
      [] f = "getWakeMessage" ->
            { "Wake time? Still buffering.",
              "Early bird energy--you probably saw a few sunrises.",
              "You vibe with the snooze button and we're here for it." }
      [] f = "getRestlessNightMessage" ->
            { "Quite the restless night!",
              "A few tosses and turns, but you made it through." }
      [] f = "getLongestSleepMessage" ->
            { "Quite the slumber.",
              "Quite the slumber--did you awaken in another era?",
              "Big slumber time" }
      [] f = "getShortestSleepMessage" ->
            { "Power nap vibes.", "Basically a blink LOL",
              "Blink and you missed that night." }
      [] f = "getRunCountMessage" ->
            { "Your running shoes are in mint condition. Maybe too mint.",
              "Quality over quantity I suppose.",
              "Steady rhythm. Those playlists got some mileage.",
              "You basically lived on the leaderboard." }
      [] f = "getLongestRunMessage" ->
            { "Marathon-core unlocked. That's an epic long run.",
              "Long enough to cross a couple neighborhoods with bragging rights.",
              "Bent the corner." }
      [] f = "getFastestPaceMessage" ->
            { "Pace radar couldn't lock on--mysterious speed!",
              "Blazing. You left even the data catching its breath.",
              "Swift and smooth--you floated through those runs.",
              "Vibez and cardio." }
      [] f = "getRunDistanceMessage" ->
            { "That's a legit tour of the map. Passport stamps pending.",
              "Hundreds of kilometers, countless playlists finished.",
              "Every kilometer counts." }
      [] f = "getExerciseMinutesMessage" ->
            { "Time is muscle--you basically lived in workout mode.",
              "Hours kept stackin.",
              "Every minute mattered. Warm-up phase complete." }
      [] f = "getCaloriesBurnedMessage" ->
            { "That's enough energy to light up the block.",
              "Plenty of sweat equity invested this year.",
              "A solid burn to get started." }
      [] f = "getStandHoursMessage" ->
            { "CHAIRS EXIST BRO",
              "You logged serious stand hours; the chair missed you.",
              "Baby steps toward less sitting. Keep it up." }
      [] f = "getWorkoutBPMMessage" ->
            { "We hittin heart till failure or what",
              "You pushed into the spicy zone whenever it mattered.",
              "A composed high--power with control.",
              "Your baseline intensity is pretty fiery.",
              "Smooth operator",
              "Chill sessions. Maybe next season gets a remix?" }
      [] f = "getAvgWorkoutTimeMessage" ->
            { "Sessions long enough to count as mini-epics.",
              "Perfectly portioned workouts.",
              "Quick hits, maximum efficiency. HIIT energy." }
      [] f = "getAvgCaloriesPerWorkoutMessage" ->
            { "Every workout was a blockbuster burn.",
              "A consistent burn that kept stacking up.",
              "Light and breezy." }

\* the string each helper with an optional parameter returns for no value
Fallback(f) ==
    CASE f = "getBedtimeMessage" -> "Bedtime mystery unlocked soon."
      [] f = "getWakeMessage" -> "Wake time? Still buffering."
      [] f = "getRestlessNightMessage" -> "Quite the restless night!"
      [] f = "getLongestSleepMessage" -> "Quite the slumber."
      [] f = "getShortestSleepMessage" -> "Power nap vibes."
      [] f = "getFastestPaceMessage" ->
            "Pace radar couldn't lock on--mysterious speed!"

\* C7: every call of a message helper on an input of its domain returns one
\* string of the helper's own fixed set, and a helper with an optional
\* parameter returns its fallback string for undefined and for null.
C7_SelectorsTotal ==
    fn \in Helpers =>
        /\ ret \in Messages(fn)
        /\ (fn \in OptionalNumberHelpers \cup OptionalStringHelpers
                /\ IsNullish(arg[1])) => ret = Fallback(fn)

C7_Witness ==
    /\ fn = "getFastestPaceMessage"
    /\ arg = <<Null>>
    /\ ret = "Pace radar couldn't lock on--mysterious speed!"

\* C8: getStepsMessage returns message A below 50000 steps, B from 50000 to
\* 199999, C from 200000 to 499999 and D from 500000 on.
C8_StepsBuckets ==
    (fn = "getStepsMessage" /\ arg[1].t = "number") =>
        LET s == arg[1].v
        IN  /\ s < 50000 =>
                ret = "Whoa... did your sneakers go on vacation? Your couch definitely won this year."
            /\ (50000 <= s /\ s < 200000) =>
                ret = "You kept things casual--enough movement to keep the playlists going, but room to roam."
            /\ (200000 <= s /\ s < 500000) =>
                ret = "You were active! That many steps is basically a never-ending city stroll."
            /\ s >= 500000 => ret = "Holy moly cuz... that's alot of steps!"

C8_Witness ==
    /\ fn = "getStepsMessage"
    /\ arg = <<Num(500000)>>
    /\ ret = "Holy moly cuz... that's alot of steps!"

JanToDec ==
    <<"Jan", "Feb", "Mar", "Apr", "May", "Jun",
      "Jul", "Aug", "Sep", "Oct", "Nov", "Dec">>

KeyOfMonth == <<"1", "2", "3", "4", "5", "6", "7", "8", "9", "10", "11", "12">>

\* the count a mapping (or no mapping) holds for month p, 0 when it has none
CountOfMonth(m, p) ==
    IF m.t = "object" /\ KeyOfMonth[p] \in DOMAIN m.props
    THEN m.props[KeyOfMonth[p]]
    ELSE Num(0)

\* C9: the steps chart's data has 12 entries named Jan..Dec in order, entry p
\* holding the mapping's count for month p, or 0 when the mapping has none.
C9_MonthMapping ==
    fn = "MonthlyStepsChart" =>
        /\ Len(ret) = 12
        /\ \A p \in 1..12 :
              /\ ret[p].name = JanToDec[p]
              /\ ret[p].steps = CountOfMonth(arg[1], p)

C9_Witness ==
    /\ fn = "MonthlyStepsChart"
    /\ arg = <<Obj("3" :> Num(500))>>
    /\ ret[3].steps = Num(500)
    /\ \A p \in (1..12) \ {3} : ret[p].steps = Num(0)

\* C10: on the slides, the workouts chart has 12 bars named Jan..Dec in
\* order, with the values the steps transform gives for the document's
\* workouts_monthly; all 0 when that mapping is empty or absent.
C10_WorkoutBars ==
    view.kind = "slides" =>
        LET w == Prop(data, "workouts_monthly")
            bars == view.workoutsChart
        IN  /\ Len(bars) = 12
            /\ \A p \in 1..12 :
                  /\ bars[p].name = JanToDec[p]
                  /\ bars[p].workouts = MonthlyStepsData(w)[p].steps
                  /\ (IsNullish(w) \/ w = Obj(<<>>)) => bars[p].workouts = Num(0)

C10_Witness ==
    /\ view.kind = "slides"
    /\ Prop(data, "workouts_monthly") = Obj(<<>>)
    /\ Len(view.workoutsChart) = 12
    /\ \A p \in 1..12 : view.workoutsChart[p].workouts = Num(0)

\* the loaded document is a WrappedData without the optional shortest_sleep_night
NoShortestSleepNight ==
    IsWrappedData(data) /\ Prop(data, "shortest_sleep_night") = Undefined

\* C11 as stated: without shortest_sleep_night the Shortest Sleep card's
\* value is the literal "N/A", its note the fallback message, no footer is
\* shown and the render does not throw.
C11_ShortestSleepValueIsNA ==
    NoShortestSleepNight =>
        /\ view.kind = "slides"
        /\ view.shortestSleep.value = "N/A"
        /\ view.shortestSleep.note = "Power nap vibes."
        /\ view.shortestSleep.noteShown
        /\ ~view.shortestSleep.footerShown

\* C11 amended: the value is "N/A hrs", the fallback "N/A" standing in for
\* the number in front of the unit; the rest as stated.
C11_ShortestSleepFallback ==
    NoShortestSleepNight =>
        /\ view.kind = "slides"
        /\ view.shortestSleep.value = "N/A hrs"
        /\ view.shortestSleep.note = "Power nap vibes."
        /\ view.shortestSleep.noteShown
        /\ ~view.shortestSleep.footerShown

C11_Witness ==
    /\ NoShortestSleepNight
    /\ view.kind = "slides"
    /\ view.shortestSleep.value = "N/A hrs"
    /\ ~uncaught

\* C12: with fastest_pace_min_per_km absent or null, the Fastest Pace card
\* and the Running tile both show a placeholder, not the raw missing value,
\* and the card's note is the fallback message.
C12_FastestPacePlaceholder ==
    (view.kind = "slides" /\ IsNullish(Prop(data, "fastest_pace_min_per_km"))) =>
        /\ view.fastestPace.value \notin {"null min/km", "undefined min/km"}
        /\ view.summary.running = "--"
        /\ view.fastestPace.note = "Pace radar couldn't lock on--mysterious speed!"

SixHundredThousandSteps ==
    IsWrappedData(data) /\ Prop(data, "steps_total") = Num(600000)

\* C13 as stated: a document with steps_total 600000 shows "600,000" on the
\* steps slide with the "Holy moly" message, and the same grouped number on
\* the Movement tile.
C13_StepsShownAs600Comma000 ==
    SixHundredThousandSteps =>
        /\ view.kind = "slides"
        /\ view.stepsValue = "600,000"
        /\ view.stepsMessage = "Holy moly cuz... that's alot of steps!"
        /\ view.summary.movement = "600,000 steps"

\* C13 amended: the message and the agreement of slide and tile hold in every
\* locale; the digits are grouped as "600,000" when the runtime's default
\* locale is en-US.
C13_StepsEndToEnd ==
    SixHundredThousandSteps =>
        /\ view.kind = "slides"
        /\ view.stepsMessage = "Holy moly cuz... that's alot of steps!"
        /\ view.summary.movement = view.stepsValue \o " steps"
        /\ locale = "en-US" => view.stepsValue = "600,000"

C13_Witness ==
    /\ SixHundredThousandSteps
    /\ locale = "en-US"
    /\ view.kind = "slides"
    /\ view.stepsValue = "600,000"
    /\ view.summary.movement = "600,000 steps"

Categories == <<"Movement", "Sleep", "Running", "Fitness">>

\* the positions of category c's sections
Block(secs, c) == { i \in 1..Len(secs) : secs[i].category = c }

First(B) == CHOOSE i \in B : \A j \in B : i <= j
Last(B) == CHOOSE i \in B : \A j \in B : j <= i

\* hero first, finale last, and between them one contiguous block per
\* category, in the order of Categories, each an intro followed by one or
\* more stat slides and then, for the categories in charted, one chart
WellFormedSections(secs, charted) ==
    /\ Len(secs) >= 2
    /\ secs[1].type = "hero"
    /\ secs[Len(secs)].type = "finale"
    /\ \A i \in 2..(Len(secs) - 1) :
          secs[i].category \in { Categories[k] : k \in 1..Len(Categories) }
    /\ \A k \in 1..Len(Categories) :
          LET B == Block(secs, Categories[k])
              stats == IF Categories[k] \in charted THEN B \ {First(B), Last(B)}
                       ELSE B \ {First(B)}
          IN  /\ B # {}
              /\ B = First(B)..Last(B)
              /\ k > 1 => First(B) = Last(Block(secs, Categories[k - 1])) + 1
              /\ secs[First(B)].type = "intro"
              /\ stats # {}
              /\ \A i \in stats : secs[i].type = "stat"
              /\ Categories[k] \in charted => secs[Last(B)].type = "chart"

FixedSections ==
    << [type |-> "hero", category |-> "none"],
       [type |-> "intro", category |-> "Movement"],
       [type |-> "stat", category |-> "Movement"],
       [type |-> "stat", category |-> "Movement"],
       [type |-> "stat", category |-> "Movement"],
       [type |-> "chart", category |-> "Movement"],
       [type |-> "intro", category |-> "Sleep"],
       [type |-> "stat", category |-> "Sleep"],
       [type |-> "stat", category |-> "Sleep"],
       [type |-> "stat", category |-> "Sleep"],
       [type |-> "intro", category |-> "Running"],
       [type |-> "stat", category |-> "Running"],
       [type |-> "stat", category |-> "Running"],
       [type |-> "intro", category |-> "Fitness"],
       [type |-> "stat", category |-> "Fitness"],
       [type |-> "stat", category |-> "Fitness"],
       [type |-> "stat", category |-> "Fitness"],
       [type |-> "stat", category |-> "Fitness"],
       [type |-> "chart", category |-> "Fitness"],
       [type |-> "finale", category |-> "none"] >>

C15_ZeroIsMissing ==
    /\ (fn \in OptionalNumberHelpers /\ arg[1] = Num(0)) => ret = Fallback(fn)
    /\ fn = "getRestlessNightMessage" =>
          IF IsNullish(arg[1]) \/ arg[1].v = 0 \/ arg[1].v > 10
          THEN ret = "Quite the restless night!"
          ELSE ret = "A few tosses and turns, but you made it through."
    /\ fn = "FinalSummarySlide" =>
          (ret.running = "--" <=> arg[2] \in {Null, Num(0)})

C15_Witness ==
    /\ fn = "getRestlessNightMessage"
    /\ arg = <<Num(0)>>
    /\ ret = "Quite the restless night!"

HighMessages ==
    <<"We hittin heart till failure or what",
      "You pushed into the spicy zone whenever it mattered.",
      "A composed high--power with control.">>

AvgMessages ==
    <<"Your baseline intensity is pretty fiery.",
      "Smooth operator",
      "Chill sessions. Maybe next season gets a remix?">>

\* the bucket of v: 1 from hi on, 2 from lo to hi - 1, 3 below lo
Bucket(v, lo, hi) == IF v >= hi THEN 1 ELSE IF v >= lo THEN 2 ELSE 3

\* C16: a "high" call answers from its three strings by the buckets >= 190,
\* 160..189, < 160, an "avg" call from its own three by >= 150, 120..149,
\* < 120, the two sets sharing no string; and on the BPM slide a missing
\* field is shown as 0 with the lowest message of its type.
C16_BPMBuckets ==
    /\ { HighMessages[k] : k \in 1..3 } \cap { AvgMessages[k] : k \in 1..3 } = {}
    /\ (fn = "getWorkoutBPMMessage" /\ arg[2] = "high") =>
          ret = HighMessages[Bucket(arg[1].v, 160, 190)]
    /\ (fn = "getWorkoutBPMMessage" /\ arg[2] = "avg") =>
          ret = AvgMessages[Bucket(arg[1].v, 120, 150)]
    /\ fn = "BPMSlide" =>
          /\ IsNullish(arg[1]) =>
                ret.high.value = "0 bpm" /\ ret.high.note = HighMessages[3]
          /\ IsNullish(arg[2]) =>
                ret.avg.value = "0 bpm" /\ ret.avg.note = AvgMessages[3]
          /\ ~IsNullish(arg[1]) =>
                ret.high.note = HighMessages[Bucket(arg[1].v, 160, 190)]
          /\ ~IsNullish(arg[2]) =>
                ret.avg.note = AvgMessages[Bucket(arg[2].v, 120, 150)]

C16_Witness ==
    /\ fn = "BPMSlide"
    /\ arg = <<Undefined, Num(150)>>
    /\ ret.high.note = "A composed high--power with control."
    /\ ret.avg.note = "Your baseline intensity is pretty fiery."

\* the sum of the numbers of a sequence of items
SumOfItems(items) ==
    LET S[k \in 0..Len(items)] == IF k = 0 THEN 0 ELSE S[k - 1] + items[k].v
    IN  S[Len(items)]

====
